---------------------------- MODULE Spec2Model ----------------------------
(***************************************************************************)
(* Model of the text normalizer and the extractive summarizer of           *)
(* wordChef.py: corregir_palabras, normalizador_texto and resumen_simple.  *)
(*                                                                         *)
(* Texts handled character by character (normalizador_texto,               *)
(* resumen_simple) are sequences of one-character strings; the text of an  *)
(* annotated token (corregir_palabras) is a string.  Python indexes from   *)
(* 0, TLA+ sequences from 1: position k of a sequence here is index k-1 of *)
(* the source.                                                             *)
(***************************************************************************)
EXTENDS Integers, Sequences, FiniteSets, TLC

VARIABLES
    pc,            \* position in the function being executed
    texto,         \* argument texto (sequence of characters)
    nlp,           \* TRUE iff an annotator was passed (nlp is not None)
    n,             \* argument n of resumen_simple
    doc,           \* annotated tokens: argument of corregir_palabras, nlp(texto)
    i,             \* loop index, counted from 0 as in the source
    corregido,     \* list corregido of corregir_palabras
    oraciones,     \* list oraciones of resumen_simple
    puntuaciones,  \* list puntuaciones of resumen_simple
    indices,       \* list indices of resumen_simple
    ret,           \* value returned to the caller
    traza          \* calls made so far to the annotator and to the splitters

vars == <<pc, texto, nlp, n, doc, i, corregido, oraciones, puntuaciones,
          indices, ret, traza>>

-----------------------------------------------------------------------------
(* Bounds of the model. *)

\* longest texto, in characters
MaxLen == 6
\* most tokens in a doc handed to corregir_palabras
MaxTokens == 4
\* most sentences the annotator returns for one text
MaxSents == 5
\* largest n passed to resumen_simple
MaxN == 3

-----------------------------------------------------------------------------
(* Characters and strings. *)

\* characters str.strip() and str.split() treat as whitespace
Espacios == {" ", "\t", "\n"}

\* characters the pattern \w matches, among those of the model
Alfanumericos == {"a", "A", "b"}

\* str.lower() on one character
LowerChar(c) == CASE c = "A" -> "a" [] OTHER -> c

\* str.lower() on a text
LowerTexto(s) == [k \in 1..Len(s) |-> LowerChar(s[k])]

\* the set of the elements of a sequence
Range(s) == {s[k] : k \in 1..Len(s)}

\* s[a..b], empty when a > b
Rebanada(s, a, b) == [k \in 1..(b - a + 1) |-> s[a + k - 1]]

\* str.strip(): the text without its leading and trailing whitespace
Strip(s) ==
    LET noBlancos == {k \in 1..Len(s) : s[k] \notin Espacios}
        primero == CHOOSE k \in noBlancos : \A m \in noBlancos : k <= m
        ultimo == CHOOSE k \in noBlancos : \A m \in noBlancos : m <= k
    IN  IF noBlancos = {} THEN <<>> ELSE Rebanada(s, primero, ultimo)

\* str.split(sep) for a one-character sep: the fragments between the
\* occurrences of sep, the empty ones included
RECURSIVE SplitEn(_, _)
SplitEn(s, sep) ==
    LET cortes == {k \in 1..Len(s) : s[k] = sep}
        c == CHOOSE k \in cortes : \A m \in cortes : k <= m
    IN  IF cortes = {} THEN <<s>>
        ELSE <<Rebanada(s, 1, c - 1)>> \o SplitEn(Rebanada(s, c + 1, Len(s)), sep)

\* the maximal runs of characters of s that are in the set clase, in order:
\* str.split() with clase the non-whitespace characters, re.findall(r"\w+")
\* with clase the characters \w matches
RECURSIVE Tramos(_, _)
Tramos(s, clase) ==
    LET dentro == {k \in 1..Len(s) : s[k] \in clase}
        a == CHOOSE k \in dentro : \A m \in dentro : k <= m
        fuera == {k \in a..Len(s) : s[k] \notin clase}
        b == IF fuera = {} THEN Len(s) + 1
             ELSE CHOOSE k \in fuera : \A m \in fuera : k <= m
    IN  IF dentro = {} THEN <<>>
        ELSE <<Rebanada(s, a, b - 1)>> \o Tramos(Rebanada(s, b, Len(s)), clase)

\* sep.join(partes) for texts that are sequences of characters
RECURSIVE Join(_, _)
Join(partes, sep) ==
    IF partes = <<>> THEN <<>>
    ELSE IF Len(partes) = 1 THEN partes[1]
    ELSE partes[1] \o sep \o Join(Tail(partes), sep)

\* " ".join(partes) for parts that are strings
RECURSIVE JoinStr(_)
JoinStr(partes) ==
    IF partes = <<>> THEN ""
    ELSE IF Len(partes) = 1 THEN partes[1]
    ELSE partes[1] \o " " \o JoinStr(Tail(partes))

\* all texts of at most len characters over the alphabet alfabeto
RECURSIVE Textos(_, _)
Textos(alfabeto, len) ==
    IF len = 0 THEN {<<>>}
    ELSE LET cortos == Textos(alfabeto, len - 1)
         IN  cortos \cup {Append(s, c) : s \in {t \in cortos : Len(t) = len - 1},
                                          c \in alfabeto}

-----------------------------------------------------------------------------
(* Annotated tokens and the lexical tables. *)

\* a spaCy token, with the attributes the code reads
Token(texto_, lema, pos) == [text |-> texto_, lemma_ |-> lema, pos_ |-> pos]

\* the tokens documents are built from
Tokens ==
    { Token("haiga", "haiga", "VERB"),
      Token("haya", "haber", "AUX"),
      Token("haber", "haber", "AUX"),
      Token("vamos", "ir", "VERB"),
      Token("lo", "el", "DET"),
      Token("casa", "casa", "NOUN"),
      Token("hola", "hola", "INTJ"),
      Token("Hola", "hola", "INTJ") }

\* str.lower() on the text of a token
Lower(w) == CASE w = "Hola" -> "hola" [] OTHER -> w

CORRECCIONES_COMUNES ==
    ("haiga" :> "haya") @@ ("naiden" :> "nadie") @@ ("nadien" :> "nadie") @@
    ("aserca" :> "acerca") @@ ("enserio" :> "en serio") @@
    ("haber" :> "a ver") @@ ("iva" :> "iba")

SUSTANTIVOS_NO_NEUTROS ==
    ("casa" :> "la casa") @@ ("persona" :> "la persona") @@
    ("gente" :> "la gente") @@ ("niño" :> "el niño") @@
    ("niña" :> "la niña") @@ ("camisa" :> "la camisa")

\* all documents of at most len tokens
RECURSIVE Docs(_)
Docs(len) ==
    IF len = 0 THEN {<<>>}
    ELSE LET cortos == Docs(len - 1)
         IN  cortos \cup {Append(d, t) : d \in {e \in cortos : Len(e) = len - 1},
                                          t \in Tokens}

-----------------------------------------------------------------------------
(* corregir_palabras *)

\* Emision with the repeat test made against the corrected output of the
\* token before instead of its source text
EmisionContraSalida(d, k) ==
    LET palabra == Lower(d[k].text)
        anterior == Lower(d[k - 1].text)
        salidaAnterior == IF anterior \in DOMAIN CORRECCIONES_COMUNES
                              THEN CORRECCIONES_COMUNES[anterior]
                          ELSE IF anterior \in DOMAIN SUSTANTIVOS_NO_NEUTROS
                              THEN SUSTANTIVOS_NO_NEUTROS[anterior]
                          ELSE anterior
    IN  IF palabra \in DOMAIN CORRECCIONES_COMUNES
            THEN <<CORRECCIONES_COMUNES[palabra]>>
        ELSE IF palabra \in DOMAIN SUSTANTIVOS_NO_NEUTROS
            THEN <<SUSTANTIVOS_NO_NEUTROS[palabra]>>
        ELSE IF k > 1 /\ palabra = salidaAnterior
            THEN <<>>
        ELSE <<d[k].text>>

\* what one iteration of the loop appends to corregido for token k of d:
\* the replacement of the first table that has the lowercased text as a key,
\* nothing for a repeat of the source token before it, else the text itself
Emision(d, k) ==
    LET palabra == Lower(d[k].text)
    IN  IF palabra \in DOMAIN CORRECCIONES_COMUNES
            THEN <<CORRECCIONES_COMUNES[palabra]>>
        ELSE IF palabra \in DOMAIN SUSTANTIVOS_NO_NEUTROS
            THEN <<SUSTANTIVOS_NO_NEUTROS[palabra]>>
        ELSE IF k > 1 /\ palabra = Lower(d[k - 1].text)
            THEN <<>>
        ELSE <<d[k].text>>

\* the list corregido after the whole loop over d
RECURSIVE CorregidoHasta(_, _)
CorregidoHasta(d, k) ==
    IF k = 0 THEN <<>> ELSE CorregidoHasta(d, k - 1) \o Emision(d, k)

\* corregir_palabras(doc) as a function; a doc that is None returns "" as the
\* empty doc does, so None is the empty doc here
CorregirPalabras(d) == JoinStr(CorregidoHasta(d, Len(d)))

\* entry: corregido = []
CorregirEntrar ==
    /\ pc = "corregir"
    /\ corregido' = <<>>
    /\ i' = 0
    /\ pc' = "corregir_bucle"
    /\ UNCHANGED <<texto, nlp, n, doc, oraciones, puntuaciones, indices, ret, traza>>

\* one iteration of for i, token in enumerate(doc)
CorregirPaso ==
    /\ pc = "corregir_bucle"
    /\ i < Len(doc)
    /\ corregido' = corregido \o Emision(doc, i + 1)
    /\ i' = i + 1
    /\ UNCHANGED <<pc, texto, nlp, n, doc, oraciones, puntuaciones, indices, ret, traza>>

\* return " ".join(corregido)
CorregirRetornar ==
    /\ pc = "corregir_bucle"
    /\ i >= Len(doc)
    /\ ret' = JoinStr(corregido)
    /\ pc' = "corregir_fin"
    /\ UNCHANGED <<texto, nlp, n, doc, i, corregido, oraciones, puntuaciones, indices, traza>>

\* a call corregir_palabras(doc)
InitCorregir ==
    /\ pc = "corregir"
    /\ doc \in Docs(MaxTokens)
    /\ texto = <<>>
    /\ nlp = TRUE
    /\ n = 1
    /\ i = 0
    /\ corregido = <<>>
    /\ oraciones = <<>>
    /\ puntuaciones = <<>>
    /\ indices = <<>>
    /\ ret = ""
    /\ traza = <<>>

-----------------------------------------------------------------------------
(* normalizador_texto *)

\* characters of the texts handed to normalizador_texto
AlfabetoNorm == {"a", "A", "b", " "}

\* texts handed to normalizador_texto together with an annotator
TextosAnotados == { <<>>, <<" ">>, <<"a">>, <<"a", " ", "A">> }

\* the value None
None == [none |-> TRUE]

\* TextoVacioNorm without the strip: only the empty text is rejected
TextoVacioSinStrip(t) == t = <<>>

\* not texto or len(texto.strip()) == 0 (a texto that is None is falsy as
\* the empty text is)
TextoVacioNorm(t) == t = <<>> \/ Len(Strip(t)) = 0

\* texto.split()
SplitBlancos(t) == Tramos(t, {c \in Range(t) : c \notin Espacios})

\* Conserva with the lower() of the word before left out
ConservaSinLower(palabras, k) ==
    k = 1 \/ LowerTexto(palabras[k]) # palabras[k - 1]

\* the condition of the comprehension: word k of palabras is kept
Conserva(palabras, k) ==
    k = 1 \/ LowerTexto(palabras[k]) # LowerTexto(palabras[k - 1])

\* [palabras[i] for i in range(len(palabras)) if i == 0 or ...], up to word k
RECURSIVE SinRepHasta(_, _)
SinRepHasta(palabras, k) ==
    IF k = 0 THEN <<>>
    ELSE SinRepHasta(palabras, k - 1)
            \o (IF Conserva(palabras, k) THEN <<palabras[k]>> ELSE <<>>)

\* the text sin_repeticiones computed from texto
SinRepeticiones(t) ==
    LET palabras == SplitBlancos(t)
    IN  Join(SinRepHasta(palabras, Len(palabras)), <<" ">>)

\* " ".join([t.lemma_ for t in doc])
Lematizado(d) == JoinStr([k \in 1..Len(d) |-> d[k].lemma_])

\* if not texto or len(texto.strip()) == 0: return None
NormVacio ==
    /\ pc = "normalizar"
    /\ TextoVacioNorm(texto)
    /\ ret' = None
    /\ pc' = "normalizar_fin"
    /\ UNCHANGED <<texto, nlp, n, doc, i, corregido, oraciones, puntuaciones, indices, traza>>

\* NormSinNlp with corregir_palabras applied to the (absent) document
\* instead of the marker
NormSinNlpCorrige ==
    /\ pc = "normalizar"
    /\ ~TextoVacioNorm(texto)
    /\ ~nlp
    /\ traza' = Append(traza, "split")
    /\ ret' = [original |-> texto,
               lematizado |-> "(spaCy requerido)",
               sin_repeticiones |-> SinRepeticiones(texto),
               corregido |-> CorregirPalabras(doc)]
    /\ pc' = "normalizar_fin"
    /\ UNCHANGED <<texto, nlp, n, doc, i, corregido, oraciones, puntuaciones, indices>>

\* if nlp is None: the whitespace-split path
NormSinNlp ==
    /\ pc = "normalizar"
    /\ ~TextoVacioNorm(texto)
    /\ ~nlp
    /\ traza' = Append(traza, "split")
    /\ ret' = [original |-> texto,
               lematizado |-> "(spaCy requerido)",
               sin_repeticiones |-> SinRepeticiones(texto),
               corregido |-> "(spaCy requerido)"]
    /\ pc' = "normalizar_fin"
    /\ UNCHANGED <<texto, nlp, n, doc, i, corregido, oraciones, puntuaciones, indices>>

\* doc = nlp(texto): the annotator is external, its answer is any document
NormAnotar ==
    /\ pc = "normalizar"
    /\ ~TextoVacioNorm(texto)
    /\ nlp
    /\ \E d \in Docs(MaxTokens) : doc' = d
    /\ traza' = Append(traza, "nlp")
    /\ pc' = "normalizar_doc"
    /\ UNCHANGED <<texto, nlp, n, i, corregido, oraciones, puntuaciones, indices, ret>>

\* the rest of the annotated path: lematizado, sin_repeticiones,
\* corregir_palabras(doc) and the returned dict
NormConNlp ==
    /\ pc = "normalizar_doc"
    /\ traza' = Append(traza, "split")
    /\ ret' = [original |-> texto,
               lematizado |-> Lematizado(doc),
               sin_repeticiones |-> SinRepeticiones(texto),
               corregido |-> CorregirPalabras(doc)]
    /\ pc' = "normalizar_fin"
    /\ UNCHANGED <<texto, nlp, n, doc, i, corregido, oraciones, puntuaciones, indices>>

\* a call normalizador_texto(texto, nlp)
InitNormalizar ==
    /\ pc = "normalizar"
    /\ \/ nlp = FALSE /\ texto \in Textos(AlfabetoNorm, MaxLen)
       \/ nlp = TRUE /\ texto \in TextosAnotados
    /\ doc = <<>>
    /\ n = 1
    /\ i = 0
    /\ corregido = <<>>
    /\ oraciones = <<>>
    /\ puntuaciones = <<>>
    /\ indices = <<>>
    /\ ret = None
    /\ traza = <<>>

-----------------------------------------------------------------------------
(* resumen_simple *)

\* characters of the texts handed to resumen_simple without an annotator
AlfabetoResumen == {"a", " ", ".", "-"}

\* a sentence of the annotated document (a spaCy Span): its text and the
\* part-of-speech tags of its tokens
Oracion(texto_, etiquetas) == [text |-> texto_, pos |-> etiquetas]

\* the sentences annotated documents are built from
Oraciones ==
    { Oracion(<<"a", " ", "a">>, <<"NOUN", "NOUN">>),
      Oracion(<<"a", " ", "b">>, <<"NOUN", "VERB">>),
      Oracion(<<"b", " ", "a", " ", "b">>, <<"VERB", "NOUN", "VERB">>),
      Oracion(<<"b", " ">>, <<"VERB", "SPACE">>) }

\* all lists of 1..len annotated sentences
RECURSIVE Segmentaciones(_)
Segmentaciones(len) ==
    IF len = 1 THEN {<<o>> : o \in Oraciones}
    ELSE LET cortas == Segmentaciones(len - 1)
         IN  cortas \cup {Append(d, o) : d \in {e \in cortas : Len(e) = len - 1},
                                          o \in Oraciones}

\* the text "Error: texto vacío."
ERROR_TEXTO_VACIO ==
    <<"E", "r", "r", "o", "r", ":", " ", "t", "e", "x", "t", "o", " ",
      "v", "a", "c", "í", "o", ".">>

\* not texto or not texto.strip()
TextoVacioRes(t) == t = <<>> \/ Strip(t) = <<>>

\* [s.strip() for s in texto.split('.') if s.strip()]
OracionesSinNlp(t) ==
    LET trozos == SplitEn(t, ".")
    IN  SelectSeq([k \in 1..Len(trozos) |-> Strip(trozos[k])],
                  LAMBDA f : f # <<>>)

\* NumSustantivos with len(w) >= 2 for len(w) > 2
NumSustantivosDesdeDos(oracion, conNlp) ==
    IF conNlp
        THEN Cardinality({k \in 1..Len(oracion.pos) : oracion.pos[k] = "NOUN"})
        ELSE LET tokens == Tramos(oracion, Alfanumericos)
             IN  Cardinality({k \in 1..Len(tokens) : Len(tokens[k]) >= 2})

\* len(sustantivos): the tokens tagged NOUN with an annotator, the \w+
\* matches longer than two characters without one
NumSustantivos(oracion, conNlp) ==
    IF conNlp
        THEN Cardinality({k \in 1..Len(oracion.pos) : oracion.pos[k] = "NOUN"})
        ELSE LET tokens == Tramos(oracion, Alfanumericos)
             IN  Cardinality({k \in 1..Len(tokens) : Len(tokens[k]) > 2})

\* longitud
Longitud(oracion, conNlp) ==
    IF conNlp THEN Len(oracion.text) ELSE Len(oracion)

\* The scores are IEEE-754 doubles.  A score is kept as its exact value in
\* units of 1/200 (exacto) and the sign of the rounding difference (ulp)
\* between (c - L/200.0) + 1, computed for sentence 0 in two rounded steps,
\* and (c + 1) - L/200.0, computed in one for another sentence: the only two
\* ways sentences shorter than 200 characters reach the same exact value from
\* different (c, L).  The signs are those of binary64 arithmetic, for c <= 3
\* and L <= 12.
RedondeoBonus(c, L) ==
    CASE c \in 0..3 /\ L \in 0..12 ->
        IF <<c, L>> \in {<<1, 3>>, <<1, 7>>, <<1, 11>>, <<2, 6>>} THEN -1
        ELSE IF <<c, L>> \in {<<2, 3>>, <<2, 11>>} THEN 1
        ELSE 0

\* Bonus given to the first two sentences (i <= 1 for i == 0)
BonusDosPrimeras(idx) == IF idx <= 1 THEN 200 ELSE 0

\* the bonus of the sentence at index idx, in units of 1/200:
\* if i == 0: puntaje += 1
Bonus(idx) == IF idx = 0 THEN 200 ELSE 0

\* puntaje of the sentence at index idx (from 0) of the list: puntaje = 0,
\* puntaje += len(sustantivos), puntaje -= longitud / 200.0 and the bonus
Puntaje(lista, idx, conNlp) ==
    LET oracion == lista[idx + 1]
        c == NumSustantivos(oracion, conNlp)
        longitud == Longitud(oracion, conNlp)
    IN  [exacto |-> 200 * c - longitud + Bonus(idx),
         ulp |-> IF Bonus(idx) # 0 THEN RedondeoBonus(c, longitud) ELSE 0]

\* p > q on scores
Mayor(p, q) ==
    \/ p.exacto > q.exacto
    \/ p.exacto = q.exacto /\ p.ulp > q.ulp

\* a sort that is not stable: entries of equal score come out in reverse
\* order
AntesEmpateInvertido(lista, k, m) ==
    \/ Mayor(lista[k][2], lista[m][2])
    \/ lista[k][2] = lista[m][2] /\ k > m

\* entry k of the list comes before entry m in
\* sorted(puntuaciones, key=lambda x: x[1], reverse=True): the sort is
\* stable, entries of equal score keep their order
Antes(lista, k, m) ==
    \/ Mayor(lista[k][2], lista[m][2])
    \/ lista[k][2] = lista[m][2] /\ k < m

\* the sort without reverse=True: ascending score, still stable
OrdenadasAscendente(lista) ==
    LET antes(k, m) == \/ Mayor(lista[m][2], lista[k][2])
                       \/ lista[k][2] = lista[m][2] /\ k < m
        rango(k) == 1 + Cardinality({m \in 1..Len(lista) : antes(m, k)})
    IN  [r \in 1..Len(lista) |->
            lista[CHOOSE k \in 1..Len(lista) : rango(k) = r]]

\* sorted(puntuaciones, key=lambda x: x[1], reverse=True)
OrdenadasPorPuntaje(lista) ==
    LET rango(k) == 1 + Cardinality({m \in 1..Len(lista) : Antes(lista, m, k)})
    IN  [r \in 1..Len(lista) |->
            lista[CHOOSE k \in 1..Len(lista) : rango(k) = r]]

\* lista[:cuantos] for cuantos >= 0
Primeras(lista, cuantos) ==
    [k \in 1..(IF cuantos < Len(lista) THEN cuantos ELSE Len(lista)) |-> lista[k]]

\* IndicesOrdenados without the sort: the indices in score order
IndicesSinOrdenar(mejores) == [k \in 1..Len(mejores) |-> mejores[k][1]]

\* sorted([idx for idx, _ in mejores])
IndicesOrdenados(mejores) ==
    LET idxs == [k \in 1..Len(mejores) |-> mejores[k][1]]
        rango(k) == 1 + Cardinality({m \in 1..Len(idxs) :
                        idxs[m] < idxs[k] \/ (idxs[m] = idxs[k] /\ m < k)})
    IN  [r \in 1..Len(idxs) |-> idxs[CHOOSE k \in 1..Len(idxs) : rango(k) = r]]

\* " ".join(oraciones[i].text.strip() if nlp else oraciones[i] for i in indices)
Resumen(lista, idxs, conNlp) ==
    Join([k \in 1..Len(idxs) |->
            IF conNlp THEN Strip(lista[idxs[k] + 1].text) ELSE lista[idxs[k] + 1]],
         <<" ">>)

\* EsCorto with < for <=
EsCortoEstricto(numOraciones, maximo) == numOraciones < maximo

\* if len(oraciones) <= n
EsCorto(numOraciones, maximo) == numOraciones <= maximo

\* texts handed to resumen_simple together with an annotator
TextosResumenAnotados == { <<>>, <<" ">>, <<"a", ".", " ", "b", ".">> }

\* if not texto or not texto.strip(): return "Error: texto vacío."
ResVacio ==
    /\ pc = "resumen"
    /\ TextoVacioRes(texto)
    /\ ret' = ERROR_TEXTO_VACIO
    /\ pc' = "resumen_fin"
    /\ UNCHANGED <<texto, nlp, n, doc, i, corregido, oraciones, puntuaciones, indices, traza>>

\* oraciones = list(nlp(texto).sents): the annotator is external, its answer
\* is any list of sentences
ResAnotar ==
    /\ pc = "resumen"
    /\ ~TextoVacioRes(texto)
    /\ nlp
    /\ \E o \in Segmentaciones(MaxSents) : oraciones' = o
    /\ traza' = Append(traza, "nlp")
    /\ pc' = "resumen_oraciones"
    /\ UNCHANGED <<texto, nlp, n, doc, i, corregido, puntuaciones, indices, ret>>

\* oraciones = [s.strip() for s in texto.split('.') if s.strip()]
ResDividir ==
    /\ pc = "resumen"
    /\ ~TextoVacioRes(texto)
    /\ ~nlp
    /\ oraciones' = OracionesSinNlp(texto)
    /\ traza' = Append(traza, "split")
    /\ pc' = "resumen_oraciones"
    /\ UNCHANGED <<texto, nlp, n, doc, i, corregido, puntuaciones, indices, ret>>

\* if len(oraciones) <= n: return texto
ResCorto ==
    /\ pc = "resumen_oraciones"
    /\ EsCorto(Len(oraciones), n)
    /\ ret' = texto
    /\ pc' = "resumen_fin"
    /\ UNCHANGED <<texto, nlp, n, doc, i, corregido, oraciones, puntuaciones, indices, traza>>

\* puntuaciones = [], and the loop over the sentences starts
ResLargo ==
    /\ pc = "resumen_oraciones"
    /\ ~EsCorto(Len(oraciones), n)
    /\ puntuaciones' = <<>>
    /\ i' = 0
    /\ pc' = "resumen_bucle"
    /\ UNCHANGED <<texto, nlp, n, doc, corregido, oraciones, indices, ret, traza>>

\* one iteration of for i, oracion in enumerate(oraciones)
ResPuntuar ==
    /\ pc = "resumen_bucle"
    /\ i < Len(oraciones)
    /\ puntuaciones' = Append(puntuaciones, <<i, Puntaje(oraciones, i, nlp)>>)
    /\ i' = i + 1
    /\ UNCHANGED <<pc, texto, nlp, n, doc, corregido, oraciones, indices, ret, traza>>

\* mejores, indices and the returned summary
ResSeleccionar ==
    /\ pc = "resumen_bucle"
    /\ i >= Len(oraciones)
    /\ LET mejores == Primeras(OrdenadasPorPuntaje(puntuaciones), n)
       IN  /\ indices' = IndicesOrdenados(mejores)
           /\ ret' = Resumen(oraciones, IndicesOrdenados(mejores), nlp)
    /\ pc' = "resumen_fin"
    /\ UNCHANGED <<texto, nlp, n, doc, i, corregido, oraciones, puntuaciones, traza>>

\* a call resumen_simple(texto, n, nlp) with n >= 1
InitResumen ==
    /\ pc = "resumen"
    /\ n \in 1..MaxN
    /\ \/ nlp = FALSE /\ texto \in Textos(AlfabetoResumen, MaxLen)
       \/ nlp = TRUE /\ texto \in TextosResumenAnotados
    /\ doc = <<>>
    /\ i = 0
    /\ corregido = <<>>
    /\ oraciones = <<>>
    /\ puntuaciones = <<>>
    /\ indices = <<>>
    /\ ret = <<>>
    /\ traza = <<>>

-----------------------------------------------------------------------------
(* The program: one call of one of the three functions. *)

Init == InitCorregir \/ InitNormalizar \/ InitResumen

Next ==
    \/ CorregirEntrar
    \/ CorregirPaso
    \/ CorregirRetornar
    \/ NormVacio
    \/ NormSinNlp
    \/ NormAnotar
    \/ NormConNlp
    \/ ResVacio
    \/ ResAnotar
    \/ ResDividir
    \/ ResCorto
    \/ ResLargo
    \/ ResPuntuar
    \/ ResSeleccionar

Spec == Init /\ [][Next]_vars

-----------------------------------------------------------------------------
(* Properties of resumen_simple: order and number of the sentences. *)

\* resumen_simple has returned after extracting (more than n sentences)
Extrajo == pc = "resumen_fin" /\ Len(oraciones) > n

\* the text resumen_simple emits for the sentence at index idx
TextoDeOracion(idx) ==
    IF nlp THEN Strip(oraciones[idx + 1].text) ELSE oraciones[idx + 1]

\* the score given to the sentence at index idx
PuntajeDe(idx) == puntuaciones[idx + 1][2]

\* C1: when resumen_simple extracts, every emitted sentence is a sentence of
\* the input and the emitted sentences are in strictly increasing original
\* index, whatever the order of their scores: indices holds indices of
\* oraciones in strictly increasing order and the summary is the texts of
\* exactly those sentences, in that order, joined by single spaces.
C1_OrdenOriginal ==
    Extrajo =>
        /\ \A k \in 1..Len(indices) : indices[k] \in 0..(Len(oraciones) - 1)
        /\ \A k \in 1..(Len(indices) - 1) : indices[k] < indices[k + 1]
        /\ ret = Join([k \in 1..Len(indices) |-> TextoDeOracion(indices[k])],
                      <<" ">>)

\* an extraction in which a sentence emitted later scores higher than one
\* emitted before it
C1_Testigo ==
    /\ Extrajo
    /\ \E a, b \in 1..Len(indices) :
          a < b /\ Mayor(PuntajeDe(indices[b]), PuntajeDe(indices[a]))

\* C2: with T sentences and n >= 1, resumen_simple returns at most min(n, T)
\* sentences, and when T <= n it returns texto itself, character for
\* character, and scores nothing.
C2_CotaYAtajo ==
    (pc = "resumen_fin" /\ ~TextoVacioRes(texto)) =>
        LET T == Len(oraciones)
        IN  /\ T > n =>
                /\ Len(indices) <= (IF n < T THEN n ELSE T)
                /\ Cardinality(Range(indices)) = Len(indices)
                /\ ret = Join([k \in 1..Len(indices) |->
                                  TextoDeOracion(indices[k])], <<" ">>)
            /\ T <= n =>
                /\ ret = texto
                /\ puntuaciones = <<>>
                /\ indices = <<>>

\* a text with exactly n >= 2 sentences returned as it is, although joining
\* its sentences would give another text
C2_Testigo ==
    /\ pc = "resumen_fin"
    /\ ~nlp
    /\ n >= 2
    /\ Len(oraciones) = n
    /\ ret = texto
    /\ texto # Join(oraciones, <<" ">>)

-----------------------------------------------------------------------------
(* Properties of corregir_palabras. *)

\* the loop of corregir_palabras is about to handle the token at index i
PorProcesar == pc = "corregir_bucle" /\ i < Len(doc)

\* the text of w is a key of neither table
SinTabla(w) ==
    /\ Lower(w) \notin DOMAIN CORRECCIONES_COMUNES
    /\ Lower(w) \notin DOMAIN SUSTANTIVOS_NO_NEUTROS

\* C3: a run of two tokens that are the same key of the correction table,
\* case-insensitively (such as "haiga", "haiga"), emits the replacement
\* exactly once: the lookup answers for the first, the duplicate suppression
\* drops the second.
C3_ReemplazoUnaVez ==
    (/\ pc = "corregir_fin"
     /\ Len(doc) = 2
     /\ Lower(doc[1].text) \in DOMAIN CORRECCIONES_COMUNES
     /\ Lower(doc[2].text) = Lower(doc[1].text))
        => corregido = <<CORRECCIONES_COMUNES[Lower(doc[1].text)]>>

\* the forms after which "haber" stands for "a ver"
FORMAS_EXHORTATIVAS == {"vamos", "voy", "van", "vas", "quiera"}

\* C5: a token whose lowercased text is "haber" is emitted as "a ver" when
\* the lowercased text of the token just before it is one of vamos, voy, van,
\* vas, quiera, and as its own surface text when the token before is not one
\* of them or there is no token before.
C5_HaberPorContexto ==
    [][(PorProcesar /\ Lower(doc[i + 1].text) = "haber") =>
          corregido' = Append(corregido,
              IF i > 0 /\ Lower(doc[i].text) \in FORMAS_EXHORTATIVAS
                  THEN "a ver" ELSE doc[i + 1].text)]_vars

\* C6: a token "lo" tagged as a determiner is never emitted as "lo": the
\* phrase the gendered-noun table maps the lowercased lemma of the next token
\* to is emitted in its place, and "el" when there is no next token or its
\* lemma is not a key of the table.
C6_LoDeterminante ==
    [][(PorProcesar /\ doc[i + 1].text = "lo" /\ doc[i + 1].pos_ = "DET") =>
          corregido' = Append(corregido,
              IF /\ i + 2 <= Len(doc)
                 /\ Lower(doc[i + 2].lemma_) \in DOMAIN SUSTANTIVOS_NO_NEUTROS
                  THEN SUSTANTIVOS_NO_NEUTROS[Lower(doc[i + 2].lemma_)]
                  ELSE "el")]_vars

\* C7: a token that is a key of neither table is dropped exactly when its
\* lowercased text equals the lowercased text of the source token at the
\* position just before it (the source token, not what was emitted for it;
\* a repeat further back does not count), and is emitted as it is otherwise;
\* so a document that is one run of such tokens, equal case-insensitively,
\* emits exactly one of them, the first.
C7_RepeticionAdyacente ==
    /\ [][(PorProcesar /\ SinTabla(doc[i + 1].text)) =>
             IF i > 0 /\ Lower(doc[i + 1].text) = Lower(doc[i].text)
                 THEN corregido' = corregido
                 ELSE corregido' = Append(corregido, doc[i + 1].text)]_vars
    /\ []((/\ pc = "corregir_fin"
           /\ Len(doc) >= 1
           /\ \A k \in 1..Len(doc) :
                 SinTabla(doc[k].text) /\ Lower(doc[k].text) = Lower(doc[1].text))
              => corregido = <<doc[1].text>>)

\* "haiga", "haya", "haya": the first "haya" follows a token emitted as
\* "haya" and is kept, the second repeats its source neighbour and is dropped
C7_Testigo ==
    /\ pc = "corregir_fin"
    /\ Len(doc) = 3
    /\ doc[1].text = "haiga" /\ doc[2].text = "haya" /\ doc[3].text = "haya"
    /\ corregido = <<"haya", "haya">>

-----------------------------------------------------------------------------
(* Properties of the empty-input check and of the repetition pass. *)

\* the text is empty or holds whitespace only
EnBlanco(t) == \A k \in 1..Len(t) : t[k] \in Espacios

\* C4: for a text that is empty or whitespace only, normalizador_texto and
\* resumen_simple both answer with their empty-input result (None, and the
\* text "Error: texto vacío."), and neither has called the annotator or
\* split the text into words or sentences at any point of the call.
C4_EntradaVacia ==
    /\ (pc \in {"normalizar", "normalizar_doc", "normalizar_fin"}
            /\ EnBlanco(texto)) =>
          /\ traza = <<>>
          /\ pc # "normalizar_doc"
          /\ pc = "normalizar_fin" => ret = None
    /\ (pc \in {"resumen", "resumen_oraciones", "resumen_bucle", "resumen_fin"}
            /\ EnBlanco(texto)) =>
          /\ traza = <<>>
          /\ pc \in {"resumen", "resumen_fin"}
          /\ pc = "resumen_fin" => ret = ERROR_TEXTO_VACIO

\* a whitespace-only text rejected by normalizador_texto although an
\* annotator was there to call
C4_Testigo ==
    /\ pc = "normalizar_fin"
    /\ nlp
    /\ texto # <<>>
    /\ EnBlanco(texto)
    /\ ret = None
    /\ traza = <<>>

\* C8: the suppression of adjacent duplicates is idempotent: the pass (keep
\* word i iff i = 0 or it differs, case-insensitively, from word i-1) applied
\* to the text it produced gives that text back.
C8_Idempotencia ==
    (pc = "normalizar_fin" /\ ret # None) =>
        SinRepeticiones(ret.sin_repeticiones) = ret.sin_repeticiones

\* a result of at least two words from which the pass dropped a word that
\* differs from its neighbour in case only
C8_Testigo ==
    /\ pc = "normalizar_fin"
    /\ ret # None
    /\ LET palabras == SplitBlancos(texto)
           salida == SplitBlancos(ret.sin_repeticiones)
       IN  /\ Len(salida) >= 2
           /\ Len(salida) < Len(palabras)
           /\ \E k \in 2..Len(palabras) :
                 /\ palabras[k] # palabras[k - 1]
                 /\ LowerTexto(palabras[k]) = LowerTexto(palabras[k - 1])

-----------------------------------------------------------------------------
(* Properties of resumen_simple: the scores and the selection. *)

\* C9: the score of sentence i with noun count c and length L is
\* c - L/200 + (1 if i = 0 else 0), here in units of 1/200: the bonus goes to
\* sentence 0 alone, the penalty to every sentence, and every sentence of an
\* extraction is scored.  (ulp records how the double holding it was rounded.)
C9_Puntaje ==
    (pc \in {"resumen_bucle", "resumen_fin"}) =>
        /\ \A k \in 1..Len(puntuaciones) :
              LET c == NumSustantivos(oraciones[k], nlp)
                  L == Longitud(oraciones[k], nlp)
              IN  /\ puntuaciones[k][1] = k - 1
                  /\ puntuaciones[k][2].exacto
                        = 200 * c - L + (IF k - 1 = 0 THEN 200 ELSE 0)
                  /\ puntuaciones[k][2].ulp \in {-1, 0, 1}
                  /\ k - 1 # 0 => puntuaciones[k][2].ulp = 0
        /\ Extrajo => Len(puntuaciones) = Len(oraciones)

\* an extraction whose sentences 0 and 1 are the same sentence, of non-zero
\* length and noun count: their scores differ by the bonus
C9_Testigo ==
    /\ Extrajo
    /\ nlp
    /\ oraciones[1] = oraciones[2]
    /\ NumSustantivos(oraciones[1], nlp) > 0
    /\ PuntajeDe(0).exacto = PuntajeDe(1).exacto + 200
    /\ PuntajeDe(1).exacto < 200 * NumSustantivos(oraciones[2], nlp)

\* C10: when resumen_simple extracts n of T > n sentences, the selected
\* sentences are a top-n set by score: exactly n are selected and no sentence
\* left out scores strictly higher than a selected one.  In particular, with
\* 5 sentences of which sentence 3 scores highest and sentence 0 second,
\* n = 2 gives the text of sentence 0 followed by the text of sentence 3.
C10_MejoresN ==
    Extrajo =>
        LET todas == 0..(Len(oraciones) - 1)
            elegidas == Range(indices)
        IN  /\ Cardinality(elegidas) = n
            /\ \A s \in elegidas : \A u \in todas \ elegidas :
                  ~Mayor(PuntajeDe(u), PuntajeDe(s))
            /\ (/\ Len(oraciones) = 5
                /\ n = 2
                /\ \A k \in {0, 1, 2, 4} : Mayor(PuntajeDe(3), PuntajeDe(k))
                /\ \A k \in {1, 2, 4} : Mayor(PuntajeDe(0), PuntajeDe(k)))
                  => /\ indices = <<0, 3>>
                     /\ ret = TextoDeOracion(0) \o <<" ">> \o TextoDeOracion(3)

\* 5 sentences, sentence 3 highest, sentence 0 second, sentence 1 third,
\* n = 2: sentences 0 and 3 are returned, in that order
C10_Testigo ==
    /\ Extrajo
    /\ Len(oraciones) = 5
    /\ n = 2
    /\ Mayor(PuntajeDe(3), PuntajeDe(0))
    /\ Mayor(PuntajeDe(0), PuntajeDe(1))
    /\ Mayor(PuntajeDe(1), PuntajeDe(2))
    /\ Mayor(PuntajeDe(1), PuntajeDe(4))
    /\ indices = <<0, 3>>
    /\ ret = TextoDeOracion(0) \o <<" ">> \o TextoDeOracion(3)

-----------------------------------------------------------------------------
(* Properties of the paths without an annotator. *)

\* the marker that stands for a field the annotator was needed for
SPACY_REQUERIDO == "(spaCy requerido)"

\* C11: without an annotator, normalizador_texto on a text that is not blank
\* still succeeds: it returns the original text and the text of its
\* whitespace-separated words with every word dropped that repeats,
\* case-insensitively, the word just before it; lematizado and corregido are
\* the marker, not computed values; the annotator and corregir_palabras were
\* not run (one split is the only call made).
C11_SinAnotador ==
    (pc = "normalizar_fin" /\ ~nlp /\ ~EnBlanco(texto)) =>
        /\ ret # None
        /\ ret.original = texto
        /\ LET palabras == SplitBlancos(texto)
               quedan == {k \in 1..Len(palabras) :
                            k = 1 \/ LowerTexto(palabras[k])
                                        # LowerTexto(palabras[k - 1])}
               salida == SplitBlancos(ret.sin_repeticiones)
           IN  /\ Len(salida) = Cardinality(quedan)
               /\ \A k \in quedan :
                     salida[Cardinality({m \in quedan : m <= k})] = palabras[k]
               /\ ret.sin_repeticiones = Join(salida, <<" ">>)
        /\ ret.lematizado = SPACY_REQUERIDO
        /\ ret.corregido = SPACY_REQUERIDO
        /\ traza = <<"split">>
        /\ doc = <<>>
        /\ corregido = <<>>

\* a text with a repeated word and surrounding whitespace normalized without
\* an annotator
C11_Testigo ==
    /\ pc = "normalizar_fin"
    /\ ~nlp
    /\ ret # None
    /\ ret.corregido = SPACY_REQUERIDO
    /\ ret.original = texto
    /\ ret.sin_repeticiones # texto
    /\ Len(SplitBlancos(ret.sin_repeticiones)) < Len(SplitBlancos(texto))

\* resumen_simple has split the text itself, having no annotator
DividioSinNlp ==
    /\ pc \in {"resumen_oraciones", "resumen_bucle", "resumen_fin"}
    /\ ~nlp
    /\ traza = <<"split">>

\* oraciones is the fragments of texto between periods, each trimmed, the
\* ones left empty dropped, in order
SonLosFragmentos ==
    LET trozos == SplitEn(texto, ".")
        noVacios == {k \in 1..Len(trozos) : ~EnBlanco(trozos[k])}
    IN  /\ Len(trozos) = 1 + Cardinality({k \in 1..Len(texto) : texto[k] = "."})
        /\ Len(oraciones) = Cardinality(noVacios)
        /\ \A k \in noVacios :
              oraciones[Cardinality({m \in noVacios : m <= k})] = Strip(trozos[k])
        /\ \A k \in 1..Len(oraciones) :
              /\ oraciones[k] # <<>>
              /\ "." \notin Range(oraciones[k])
              /\ oraciones[k][1] \notin Espacios
              /\ oraciones[k][Len(oraciones[k])] \notin Espacios

\* how many maximal runs of characters of clase in s are longer than two
TramosLargos(s, clase) ==
    Cardinality({a \in 1..Len(s) :
        /\ s[a] \in clase
        /\ a = 1 \/ s[a - 1] \notin clase
        /\ a + 2 <= Len(s)
        /\ s[a + 1] \in clase
        /\ s[a + 2] \in clase})

\* the characters of s that are not whitespace
NoBlancos(s) == {c \in Range(s) : c \notin Espacios}

\* every score given so far counts the long runs of clase(sentence)
PuntuaConTramos(clase(_)) ==
    \A k \in 1..Len(puntuaciones) :
        puntuaciones[k][2].exacto
            = 200 * TramosLargos(oraciones[k], clase(oraciones[k]))
                - Len(oraciones[k]) + (IF k = 1 THEN 200 ELSE 0)

\* C12 as stated: without an annotator the sentences are the non-empty
\* trimmed fragments of the split on the period, and the noun count of a
\* sentence's score is the number of its whitespace-delimited tokens longer
\* than two characters.
C12_TokensPorBlancos ==
    DividioSinNlp => (SonLosFragmentos /\ PuntuaConTramos(NoBlancos))

\* the word characters, whatever the sentence
DeAlfanumericos(s) == Alfanumericos

\* C12, amended: without an annotator the sentences are the non-empty
\* trimmed fragments of the split on the period, and the noun count of a
\* sentence's score is the number of its maximal runs of word characters
\* (the matches of \w+) longer than two characters.
C12_TokensPorPalabra ==
    DividioSinNlp => (SonLosFragmentos /\ PuntuaConTramos(DeAlfanumericos))

\* an extraction without annotator that scored a sentence whose only long
\* token is broken by a character that is neither a word character nor
\* whitespace: its noun count is 0
C12_Testigo ==
    /\ DividioSinNlp
    /\ Extrajo
    /\ \E k \in 1..Len(oraciones) :
          /\ TramosLargos(oraciones[k], Alfanumericos) = 0
          /\ TramosLargos(oraciones[k], NoBlancos(oraciones[k])) = 1
          /\ Range(oraciones[k]) \cap Alfanumericos # {}
          /\ puntuaciones[k][2].exacto
                = (IF k = 1 THEN 200 ELSE 0) - Len(oraciones[k])

-----------------------------------------------------------------------------
(* The gendered-noun table and the order of equal scores. *)

\* the token before the one about to be handled is the determiner "lo"
TrasLoDeterminante ==
    i > 0 /\ doc[i].text = "lo" /\ doc[i].pos_ = "DET"

\* C13: the gendered-noun table only resolves a determiner "lo": a token
\* whose lowercased text is a key of the gendered-noun table (such as "casa")
\* and that does not come after the determiner "lo" is emitted as its own
\* surface text, not as the phrase with the article.
C13_SustantivoSinLo ==
    [][(/\ PorProcesar
        /\ Lower(doc[i + 1].text) \in DOMAIN SUSTANTIVOS_NO_NEUTROS
        /\ Lower(doc[i + 1].text) \notin DOMAIN CORRECCIONES_COMUNES
        /\ ~TrasLoDeterminante)
          => corregido' = Append(corregido, doc[i + 1].text)]_vars

\* the sentences that come before the sentence at index idx in the
\* selection: those of higher score, and those of equal score and smaller
\* index
Delante(idx) ==
    {m \in 0..(Len(oraciones) - 1) :
        \/ Mayor(PuntajeDe(m), PuntajeDe(idx))
        \/ PuntajeDe(m) = PuntajeDe(idx) /\ m < idx}

\* C14: ties of score are broken by ascending original index: of two
\* sentences of equal score of which only one is within the best n, the one
\* of smaller index is selected; the selection is a function of the scores
\* alone, the sentences with fewer than n sentences before them, so the same
\* input gives the same result on every call.
C14_EmpatesPorIndice ==
    Extrajo =>
        LET todas == 0..(Len(oraciones) - 1)
            elegidas == Range(indices)
        IN  /\ elegidas = {idx \in todas : Cardinality(Delante(idx)) < n}
            /\ \A s \in elegidas : \A u \in todas \ elegidas :
                  PuntajeDe(s) = PuntajeDe(u) => s < u

\* an extraction where a selected sentence and a sentence left out have the
\* same score, and the selected one has the smaller index
C14_Testigo ==
    /\ Extrajo
    /\ \E s \in Range(indices) :
          \E u \in (0..(Len(oraciones) - 1)) \ Range(indices) :
              PuntajeDe(s) = PuntajeDe(u) /\ s < u

=============================================================================
